---- MODULE Spec2Model ----
(***************************************************************************)
(* State-machine model of src/bot.js (TwitterLinkBot): the link pipeline   *)
(* (extractTwitterLinks -> expandShortUrl -> saveLinkToDatabase), the      *)
(* historical scraper (scrapeHistoricalMessages) and the live monitor      *)
(* (the messageCreate handler).                                            *)
(*                                                                         *)
(* JavaScript runs one callback at a time; control changes hands only at   *)
(* an await.  Every action below is the code between two awaits.           *)
(***************************************************************************)
EXTENDS Integers, Sequences, FiniteSets, Bags, TLC

(***************************************************************************)
(* Bounds of the model.                                                    *)
(***************************************************************************)
MaxHist == 3
MaxTime == 2
MaxClock == 1
MaxEvents == 2
MaxUpserts == 3
MaxWords == 2

\* BATCH_SIZE (src/bot.js:18) is read from the environment; the model runs
\* the scraper with pages of two messages so that a history spans pages.
BATCH_SIZE == 2
\* DELAY_BETWEEN_BATCHES (src/bot.js:19), in units of 1000 ms.
DELAY_BETWEEN_BATCHES == 1

Null == "null"

(***************************************************************************)
(* Program state.                                                          *)
(***************************************************************************)
VARIABLES
    \* process.env, read once at module load (src/bot.js:7-19)
    ENABLE_HISTORICAL_SCRAPING, SCRAPE_FROM_DATE, TEST_MODE, GUILD_ID,
    CHANNEL_ID_1, CHANNEL_ID_2,
    \* the message source: the stored history of every channel, newest id first
    history,
    \* fields of TwitterLinkBot (src/bot.js:30-34)
    historicalScrapingComplete, scrapingInProgress, testModeLinks, collection,
    \* locals of scrapeHistoricalMessages (src/bot.js:226-353)
    scraperPc, fromDate, chanIdx, lastMessageId, hasMoreMessages, page, pageIdx,
    messagesInDateRange,
    \* the activations of processMessage: the scraper's, and the bag of those
    \* started by the messageCreate handler that have not returned yet
    tasks,
    \* the wall clock read by new Date()
    now,
    \* message-created events the gateway may still deliver
    eventBudget,
    \* observation of the run (not program state): the calls of processMessage,
    \* the events announced, the page fetches per channel slot, the point where
    \* a traversal met the cutoff, what the server answered per key, the
    \* messages whose processMessage has returned, a failed updateOne
    passed, delivered, fetches, stoppedAt, upsertLog, completed, connError, lookups,
    \* one call of extractTwitterLinks on its own: the text it is given, where
    \* the call is, and the array it returns
    inputText, extractPc, foundLinks,
    \* where stop() is (src/bot.js:459-468), once a signal has called it
    stopPc,
    \* totalLinksFound of scrapeHistoricalMessages (src/bot.js:251), and an
    \* observation: the calls of saveLinkToDatabase made for the scraper
    totalLinksFound, savedByScraper

envVars == <<ENABLE_HISTORICAL_SCRAPING, SCRAPE_FROM_DATE, TEST_MODE, GUILD_ID,
             CHANNEL_ID_1, CHANNEL_ID_2, history>>
botVars == <<historicalScrapingComplete, scrapingInProgress>>
storeVars == <<testModeLinks, collection>>
scraperVars == <<scraperPc, fromDate, chanIdx, lastMessageId, hasMoreMessages,
                 page, pageIdx, messagesInDateRange>>
obsVars == <<passed, delivered, fetches, stoppedAt, upsertLog, completed, connError,
             lookups>>
textVars == <<inputText, extractPc, foundLinks>>
\* what the actions of the bot leave alone
callVars == <<textVars, stopPc>>
countVars == <<totalLinksFound, savedByScraper>>
vars == <<envVars, botVars, storeVars, scraperVars, tasks, now, eventBudget, obsVars,
          callVars, countVars>>

(***************************************************************************)
(* Text and URLs.  A text is the sequence of its whitespace-separated      *)
(* words; a word that is a URL is kept in parsed form:                     *)
(*   https://<host>/<user>[/status/<id>]<tail><punct>                      *)
(* host is written as in the text, in lower case or not;                   *)
(* user is a \w+ run ("" when missing), status tells whether "/status/"    *)
(* follows, id is a \d+ run ("" when what follows is no digit), tail is    *)
(* everything else up to the trailing punctuation punct (a run of .,;!?).  *)
(***************************************************************************)
Url(host, user, status, id, tail, punct) ==
    [host |-> host, user |-> user, status |-> status, id |-> id,
     tail |-> tail, punct |-> punct]

SocialHosts == {"twitter.com", "x.com"}
ShortHost == "t.co"

UStatus == Url("x.com", "foo", TRUE, "555", "?s=20", "!")
UStatusPlain == Url("x.com", "foo", TRUE, "555", "", "")
UProfile == Url("twitter.com", "bar", FALSE, "", "", ".")
UShort == Url("t.co", "abc", FALSE, "", "", "")
UOther == Url("example.com", "page", FALSE, "", "", "")
URefTco == Url("twitter.com", "bar", FALSE, "", "?ref=t.co", "")
UStatusComma == Url("x.com", "foo", TRUE, "555", "/photo/1", ",")
UStatusUpper == Url("X.com", "foo", TRUE, "555", "?s=20", "")
UStatusNoId == Url("x.com", "foo", TRUE, "", "abc", "")
UProfilePlain == Url("twitter.com", "bar", FALSE, "", "", "")

\* the host as the flag i of a pattern reads it
Lower(host) == IF host = "X.com" THEN "x.com" ELSE host

\* link.replace(/[.,;!?]+$/, '')
StripPunct(u) == [u EXCEPT !.punct = ""]

\* allUrlPattern (flags gi): a social host followed by "/" and at least one
\* character
MatchesAllUrlPattern(u) ==
    /\ Lower(u.host) \in SocialHosts
    /\ (u.user # "" \/ u.status \/ u.tail # "" \/ u.punct # "")

\* the status regex (no flag): host / \w+ /status/ \d+ ; the match ends with
\* the digits
StatusMatch(u) ==
    IF u.host \in SocialHosts /\ u.user # "" /\ u.id # ""
    THEN <<[u EXCEPT !.tail = "", !.punct = ""]>>
    ELSE <<>>

\* what one match of allUrlPattern adds to the set of links
SocialCandidates(u) ==
    IF ~MatchesAllUrlPattern(u) THEN <<>>
    ELSE IF StripPunct(u).status THEN StatusMatch(StripPunct(u))
    ELSE <<StripPunct(u)>>

\* shortPattern: t.co followed by "/" and a \w+ run; the match ends with the run
ShortCandidates(u) ==
    IF Lower(u.host) = ShortHost /\ u.user # "" /\ ~u.status
    THEN <<StripPunct([u EXCEPT !.tail = "", !.punct = ""])>>
    ELSE <<>>

\* allMatches.forEach(...) over the matches of allUrlPattern, in text order
RECURSIVE SocialLinks(_)
SocialLinks(text) ==
    IF text = <<>> THEN <<>>
    ELSE SocialCandidates(Head(text)) \o SocialLinks(Tail(text))

\* shortMatches.forEach(...) over the matches of shortPattern, in text order
RECURSIVE ShortLinks(_)
ShortLinks(text) ==
    IF text = <<>> THEN <<>>
    ELSE ShortCandidates(Head(text)) \o ShortLinks(Tail(text))

\* Array.from(new Set(...)): insertion order, first occurrence kept
RECURSIVE Dedup(_, _)
Dedup(s, seen) ==
    IF s = <<>> THEN <<>>
    ELSE IF Head(s) \in seen THEN Dedup(Tail(s), seen)
    ELSE <<Head(s)>> \o Dedup(Tail(s), seen \cup {Head(s)})

extractTwitterLinks(text) ==
    Dedup(SocialLinks(text) \o ShortLinks(text), {})

\* url.includes('t.co')
IncludesTco(u) == u.host = ShortHost \/ u.tail = "?ref=t.co"

\* what the HEAD request may report as response URL
ResponseUrls == {UStatusPlain}

\* no URL: response.request.res.responseUrl is undefined
NoUrl == Url("", "", FALSE, "", "", "")

\* the ways axios.head may reject: timeout (5000 ms), DNS failure, more than
\* maxRedirects (5) redirects, a status outside 2xx
HeadFailures == {"timeout", "dns", "tooManyRedirects", "errorStatus"}

\* what may come of the call of axios.head
HeadOutcomes ==
    {[kind |-> "ok", responseUrl |-> r] : r \in ResponseUrls \cup {NoUrl}}
      \cup {[kind |-> k, responseUrl |-> NoUrl] : k \in HeadFailures}

NoRequest == [kind |-> "none", responseUrl |-> NoUrl]

\* what may come of the network for expandShortUrl(u): the request is made
\* only when url.includes('t.co')
Lookups(u) == IF IncludesTco(u) THEN HeadOutcomes ELSE {NoRequest}

\* expandShortUrl: the value it returns for url when the network answers o
expandShortUrlUncaught(u, o) ==
    IF ~IncludesTco(u) THEN u
    ELSE IF o.kind = "ok"
         THEN (IF o.responseUrl # NoUrl THEN o.responseUrl ELSE u)
         ELSE NoUrl
expandShortUrl(u, o) ==
    IF ~IncludesTco(u) THEN u
    ELSE IF o.kind = "ok"
         THEN (IF o.responseUrl # NoUrl THEN o.responseUrl ELSE u)
         ELSE u


(***************************************************************************)
(* Messages and the message source.                                        *)
(***************************************************************************)
Channels == {"c1", "c2"}
Times == 0..MaxTime
NoId == 0
NoDate == -1

Message(id, channelId, guildId, bot, authorId, content, createdAt) ==
    [id |-> id, channelId |-> channelId, guildId |-> guildId, bot |-> bot,
     authorId |-> authorId, content |-> content, createdAt |-> createdAt,
     readable |-> TRUE]

\* a message whose content is null: text.match(...) in extractTwitterLinks
\* raises a TypeError for it
Unreadable(m) == [m EXCEPT !.content = <<>>, !.readable = FALSE]

NoMessage == Message(NoId, Null, Null, FALSE, Null, <<>>, 0)

ChannelBase(c) == IF c = "c1" THEN 100 ELSE 200

\* the text of the i-th newest message of a history
ContentAt(i) ==
    CASE i % 3 = 1 -> <<UStatus>>
      [] i % 3 = 2 -> <<UProfile, UOther>>
      [] OTHER -> <<UShort, UProfile>>

\* a channel history whose i-th newest message was created at ts[i];
\* identifiers decrease with the position, the second of every three
\* messages is a bot's
HistoryOf(c, ts) ==
    [i \in 1..Len(ts) |->
        Message(ChannelBase(c) + Len(ts) - i + 1, c, "g1", i % 3 = 2,
                IF i % 3 = 2 THEN "b1" ELSE "a1", ContentAt(i), ts[i])]

TimeSeqs(n) == UNION {[1..k -> Times] : k \in 0..n}

\* messages the gateway may announce as created
LiveMessages ==
    { Message(301, "c1", "g1", FALSE, "a1", <<UStatus, UProfile>>, MaxTime),
      Message(302, "c1", "g1", FALSE, "a1", <<UStatus>>, MaxTime),
      Message(303, "c2", "g2", FALSE, "a2", <<UShort>>, MaxTime) }

Take(s, n) == IF Len(s) <= n THEN s ELSE SubSeq(s, 1, n)

IsOlderThan(m, before) == before = NoId \/ m.id < before

\* channel.messages.fetch({limit, before}): the newest `limit` messages of
\* the channel whose identifier is below `before` (all of it when unset)
FetchBefore(c, before, limit) ==
    Take(SelectSeq(history[c], LAMBDA m : IsOlderThan(m, before)), limit)

(***************************************************************************)
(* Configuration helpers.                                                  *)
(***************************************************************************)
DateStrings == {"", "not-a-date", "2024-01-01"}

\* new Date(dateString).getTime(): NaN (NoDate) unless the string is a date
DateGetTime(s) == IF s = "2024-01-01" THEN 1 ELSE NoDate

parseScrapingDateEpoch(s) ==
    IF s = "" \/ DateGetTime(s) = NoDate THEN 0 ELSE DateGetTime(s)
parseScrapingDate(s) ==
    IF s = "" THEN NoDate
    ELSE IF DateGetTime(s) = NoDate THEN NoDate
    ELSE DateGetTime(s)

\* [CHANNEL_ID_1, CHANNEL_ID_2].filter(Boolean)
allowedChannels ==
    SelectSeq(<<CHANNEL_ID_1, CHANNEL_ID_2>>, LAMBDA c : c # Null)

InSeq(x, s) == \E i \in 1..Len(s) : s[i] = x

\* the three early returns of processMessage
AcceptsAnyGuildAndChannel(m) == ~m.bot
AcceptsBots(m) ==
    /\ ~(GUILD_ID # Null /\ (m.guildId = Null \/ m.guildId # GUILD_ID))
    /\ ~(Len(allowedChannels) > 0 /\ ~InSeq(m.channelId, allowedChannels))
AcceptsMessage(m) ==
    /\ ~m.bot
    /\ ~(GUILD_ID # Null /\ (m.guildId = Null \/ m.guildId # GUILD_ID))
    /\ ~(Len(allowedChannels) > 0 /\ ~InSeq(m.channelId, allowedChannels))

\* the condition of the messageCreate handler
LiveGateOpen == TRUE
LiveGateNotInProgress == ~scrapingInProgress
LiveGate == ~ENABLE_HISTORICAL_SCRAPING \/ historicalScrapingComplete

\* message.createdAt < fromDate
IsBeforeCutoffInclusive(m) == m.createdAt <= fromDate
IsBeforeCutoff(m) == m.createdAt < fromDate

(***************************************************************************)
(* Storage.                                                                *)
(***************************************************************************)
LinkData(url, originalUrl, m, foundAt) ==
    [url |-> url, originalUrl |-> originalUrl, messageId |-> m.id,
     channelId |-> m.channelId, guildId |-> m.guildId, authorId |-> m.authorId,
     messageTimestamp |-> m.createdAt, foundAt |-> foundAt]

NoLinkData == LinkData(UOther, UOther, NoMessage, 0)

\* $set linkData on an existing document: createdAt is kept
SetFields(doc, ld) ==
    [url |-> ld.url, originalUrl |-> ld.originalUrl, messageId |-> ld.messageId,
     channelId |-> ld.channelId, guildId |-> ld.guildId, authorId |-> ld.authorId,
     messageTimestamp |-> ld.messageTimestamp, foundAt |-> ld.foundAt,
     createdAt |-> doc.createdAt]

\* the document an upsert inserts: $set linkData, $setOnInsert createdAt
NewDoc(ld, createdAt) ==
    [url |-> ld.url, originalUrl |-> ld.originalUrl, messageId |-> ld.messageId,
     channelId |-> ld.channelId, guildId |-> ld.guildId, authorId |-> ld.authorId,
     messageTimestamp |-> ld.messageTimestamp, foundAt |-> ld.foundAt,
     createdAt |-> createdAt]

SameKey(a, b) == a.messageId = b.messageId /\ a.url = b.url

\* positions of the documents the filter {messageId, url} selects
MatchIdx(coll, ld) == {i \in 1..Len(coll) : SameKey(coll[i], ld)}

Min(S) == CHOOSE x \in S : \A y \in S : x <= y

\* the unique indexes created by connectToMongoDB: {url: 1} and {messageId: 1}
NoUniqueIndex(coll, doc) == FALSE
ViolatesUniqueIndex(coll, doc) ==
    \E i \in 1..Len(coll) :
        coll[i].url = doc.url \/ coll[i].messageId = doc.messageId

\* testModeLinks.findIndex(...)
findIndex(links, ld) ==
    IF MatchIdx(links, ld) = {} THEN -1 ELSE Min(MatchIdx(links, ld))

\* saveLinkToDatabase in test mode: push unless the key is already held; a
\* record that is already held is left as it is
saveLinkTestMode(links, ld) ==
    IF findIndex(links, ld) = -1 THEN Append(links, ld) ELSE links

\* what a call of saveLinkToDatabase hands back to its caller: the test-mode
\* branch ends with a bare return, the other branch falls off its end, and
\* the result of updateOne is used for the console only
Undefined == "undefined"
saveLinkToDatabaseReturns(testMode, effect) == Undefined

\* updateOne({messageId, url}, {$set, $setOnInsert}, {upsert: true}) when no
\* other writer runs between its match and its insert
updateOne(coll, ld, createdAt) ==
    IF MatchIdx(coll, ld) # {}
    THEN [coll EXCEPT ![Min(MatchIdx(coll, ld))] = SetFields(@, ld)]
    ELSE IF ViolatesUniqueIndex(coll, NewDoc(ld, createdAt))
         THEN coll
         ELSE Append(coll, NewDoc(ld, createdAt))


(***************************************************************************)
(* Initial states: the state after the constructor (src/bot.js:22-35),     *)
(* for a choice of the environment and of the channel histories.           *)
(***************************************************************************)
Slots == 1..2

IdleTask ==
    [pc |-> "idle", message |-> NoMessage, links |-> <<>>,
     linkData |-> NoLinkData, createdAt |-> 0]

InitBot ==
    /\ historicalScrapingComplete = FALSE
    /\ scrapingInProgress = FALSE
    /\ testModeLinks = <<>>
    /\ collection = <<>>
    /\ scraperPc = "init"
    /\ fromDate = NoDate
    /\ chanIdx = 0
    /\ lastMessageId = NoId
    /\ hasMoreMessages = FALSE
    /\ page = <<>>
    /\ pageIdx = 0
    /\ messagesInDateRange = 0
    /\ tasks = [scraper |-> IdleTask, live |-> EmptyBag]
    /\ now = 0
    /\ passed = <<>>
    /\ delivered = <<>>
    /\ fetches = [s \in Slots |-> [n |-> 0, failed |-> FALSE]]
    /\ stoppedAt = [s \in Slots |-> [hit |-> FALSE, n |-> 0, rest |-> {}]]
    /\ upsertLog = {}
    /\ completed = {}
    /\ connError = FALSE
    /\ lookups = {}
    /\ stopPc = "running"
    /\ totalLinksFound = 0
    /\ savedByScraper = 0

\* no call of extractTwitterLinks on its own
InitNoCall ==
    /\ inputText = <<>>
    /\ extractPc = "idle"
    /\ foundLinks = <<>>

\* environments that exercise the traversal: any channel slots, any history
\* of c1 up to MaxHist messages in any time order, no live traffic
InitScrape ==
    /\ ENABLE_HISTORICAL_SCRAPING = TRUE
    /\ SCRAPE_FROM_DATE = "2024-01-01"
    /\ TEST_MODE = TRUE
    /\ GUILD_ID = Null
    /\ CHANNEL_ID_1 \in Channels \cup {Null}
    /\ CHANNEL_ID_2 \in Channels \cup {Null}
    /\ \E ts1 \in TimeSeqs(MaxHist), ts2 \in {<<>>, <<MaxTime>>} :
          history = [c \in Channels |->
                        IF c = "c1" THEN HistoryOf(c, ts1) ELSE HistoryOf(c, ts2)]
    /\ eventBudget = 0

\* environments that exercise the gate between the scraper and the live
\* monitor: any cutoff string, live traffic before and after the scrape
InitGate ==
    /\ ENABLE_HISTORICAL_SCRAPING = TRUE
    /\ SCRAPE_FROM_DATE \in DateStrings
    /\ TEST_MODE = FALSE
    /\ GUILD_ID = Null
    /\ CHANNEL_ID_1 \in {Null, "c1"}
    /\ CHANNEL_ID_2 = Null
    /\ history = [c \in Channels |->
                    IF c = "c1" THEN HistoryOf(c, <<MaxTime>>) ELSE <<>>]
    /\ eventBudget = MaxEvents

\* environments that exercise the store: both storage modes, live traffic only
InitStore ==
    /\ ENABLE_HISTORICAL_SCRAPING = FALSE
    /\ SCRAPE_FROM_DATE = "2024-01-01"
    /\ TEST_MODE \in BOOLEAN
    /\ \E cfg \in {<<Null, Null>>, <<"g1", "c1">>} :
          GUILD_ID = cfg[1] /\ CHANNEL_ID_1 = cfg[2]
    /\ CHANNEL_ID_2 = Null
    /\ history = [c \in Channels |->
                    IF c = "c1" THEN HistoryOf(c, <<MaxTime>>) ELSE <<>>]
    /\ eventBudget = MaxEvents

\* a history with a message of a bot, a message without any link, a message
\* whose content cannot be read, and a link that holds the characters of the
\* shortener's name
FaultyHistory ==
    [c \in Channels |->
        IF c = "c1"
        THEN << Message(104, "c1", "g1", TRUE, "b1", <<UStatus>>, MaxTime),
                Message(103, "c1", "g1", FALSE, "a1", <<UOther>>, MaxTime),
                Unreadable(Message(102, "c1", "g1", FALSE, "a1", <<>>, MaxTime)),
                Message(101, "c1", "g1", FALSE, "a1", <<UStatus>>, MaxTime) >>
        ELSE << Message(201, "c2", "g1", FALSE, "a2", <<URefTco>>, MaxTime) >>]

\* environments that exercise the handling of what cannot be processed
InitFaulty ==
    /\ ENABLE_HISTORICAL_SCRAPING = TRUE
    /\ SCRAPE_FROM_DATE = "2024-01-01"
    /\ TEST_MODE \in BOOLEAN
    /\ GUILD_ID = "g1"
    /\ CHANNEL_ID_1 = "c1"
    /\ CHANNEL_ID_2 \in {Null, "c2"}
    /\ history = FaultyHistory
    /\ eventBudget = 0

Init == InitBot /\ InitNoCall /\ (InitScrape \/ InitGate \/ InitStore \/ InitFaulty)

\* new Date(): the clock never runs backwards; between two reads it may
\* have advanced
ClockReads(last) == {t \in last..(last + 1) : t <= MaxClock}

(***************************************************************************)
(* processMessage (src/bot.js:179-224) and what it calls.                  *)
(***************************************************************************)
\* processMessage up to its first await: the filters, the extraction and the
\* call of expandShortUrl for the first link
EnterPipeline(m) ==
    IF AcceptsMessage(m) /\ m.readable /\ extractTwitterLinks(m.content) # <<>>
    THEN [pc |-> "expand", message |-> m, links |-> extractTwitterLinks(m.content),
          linkData |-> NoLinkData, createdAt |-> 0]
    ELSE IdleTask

\* processMessage raises at the extraction (191)
processMessageThrows(m) == AcceptsMessage(m) /\ ~m.readable

\* processMessage returns without having awaited anything
ReturnsAtOnce(m) == EnterPipeline(m).pc = "idle" /\ ~processMessageThrows(m)

\* an activation that has returned is no longer pending
Pending(task) == IF task.pc = "idle" THEN EmptyBag ELSE SetToBag({task})

\* the activations that are waiting at an await
InFlight ==
    {[who |-> "scraper", task |-> tasks.scraper]}
      \cup {[who |-> "live", task |-> x] : x \in BagToSet(tasks.live)}

\* the activation t goes on as `new`
Put(t, new) ==
    IF t.who = "scraper"
    THEN [tasks EXCEPT !.scraper = new]
    ELSE [tasks EXCEPT !.live = (@ (-) SetToBag({t.task})) (+) Pending(new)]

\* the for loop moves to the next link, or processMessage returns
NextLink(task) ==
    IF Len(task.links) > 1
    THEN [task EXCEPT !.pc = "expand", !.links = Tail(task.links),
                      !.linkData = NoLinkData, !.createdAt = 0]
    ELSE IdleTask

\* the catch of saveLinkToDatabase (174-176) logs the error and returns:
\* the caller goes on as after a successful write
AbortOnWriteError(task) == IdleTask
AfterWriteError(task) == NextLink(task)

Finished(task) ==
    IF Len(task.links) > 1 THEN completed ELSE completed \cup {task.message.id}

DocsOfKey(k) == {i \in DOMAIN collection : SameKey(collection[i], k)}

\* what has been observed of the upserts of the key of ld so far: how many
\* the server answered, the createdAt of the first that inserted, the foundAt
\* of the latest, and whether one was rejected although the key was stored
Observed(ld) ==
    IF \E r \in upsertLog : SameKey(r, ld)
    THEN CHOOSE r \in upsertLog : SameKey(r, ld)
    ELSE [messageId |-> ld.messageId, url |-> ld.url, answered |-> 0,
          insertedAt |-> NoDate, lastFoundAt |-> NoDate, raced |-> FALSE]

LogEntry(ld, createdAt, outcome) ==
    (upsertLog \ {Observed(ld)}) \cup
    {[Observed(ld) EXCEPT
        !.answered = @ + 1,
        !.insertedAt = IF outcome = "inserted" /\ @ = NoDate THEN createdAt ELSE @,
        !.lastFoundAt = ld.foundAt,
        !.raced = @ \/ (outcome = "duplicateKey" /\ DocsOfKey(ld) # {})]}

\* what is observed of one call of expandShortUrl: the link it was given,
\* whether a request was made and whether it failed, and the url of the
\* record built from what it returned
LookupEntry(ld, o) ==
    [originalUrl |-> ld.originalUrl, requested |-> o.kind # "none",
     failed |-> o.kind \in HeadFailures, url |-> ld.url]

\* expandShortUrl returns; the record is built (foundAt = new Date()) and
\* saveLinkToDatabase runs up to its await: in test mode the whole of it,
\* otherwise up to the updateOne request ($setOnInsert createdAt = new Date())
ExpandReturns(t) ==
    /\ t.task.pc = "expand"
    /\ \E o \in Lookups(Head(t.task.links)), foundAt \in ClockReads(now) :
        LET ld == LinkData(expandShortUrl(Head(t.task.links), o),
                           Head(t.task.links), t.task.message, foundAt) IN
        /\ lookups' = lookups \cup {LookupEntry(ld, o)}
        /\ IF TEST_MODE
           THEN /\ testModeLinks' = saveLinkTestMode(testModeLinks, ld)
                /\ tasks' = Put(t, NextLink(t.task))
                /\ completed' = Finished(t.task)
                /\ now' = foundAt
                /\ UNCHANGED <<collection, upsertLog>>
           ELSE \E createdAt \in ClockReads(foundAt) :
                /\ tasks' = Put(t, [t.task EXCEPT !.pc = "upsertMatch",
                                                         !.linkData = ld,
                                                         !.createdAt = createdAt])
                /\ now' = createdAt
                /\ UNCHANGED <<testModeLinks, collection, upsertLog, completed>>
    /\ savedByScraper' = IF t.who = "scraper" THEN savedByScraper + 1 ELSE savedByScraper
    /\ UNCHANGED <<envVars, callVars, totalLinksFound, botVars, scraperVars, eventBudget,
                   passed, delivered, fetches, stoppedAt, connError>>

\* the server evaluates the filter of updateOne: a matching document is
\* updated in place; without a match the upsert goes on to insert
UpsertMatch(t) ==
    /\ t.task.pc = "upsertMatch"
    /\ LET ld == t.task.linkData
           hits == MatchIdx(collection, ld) IN
       IF hits # {}
       THEN /\ collection' = [collection EXCEPT
                                 ![Min(hits)] = SetFields(@, ld)]
            /\ upsertLog' = LogEntry(ld, t.task.createdAt, "updated")
            /\ tasks' = Put(t, NextLink(t.task))
            /\ completed' = Finished(t.task)
       ELSE /\ tasks' = Put(t, [t.task EXCEPT !.pc = "upsertInsert"])
            /\ UNCHANGED <<collection, upsertLog, completed>>
    /\ UNCHANGED <<envVars, callVars, countVars, botVars, scraperVars, testModeLinks, now, eventBudget,
                   passed, delivered, fetches, stoppedAt, connError,
                   lookups>>

\* the insert of the upsert: rejected with a duplicate-key error when a unique
\* index forbids the new document; the error is caught and logged (174-176)
UpsertInsert(t) ==
    /\ t.task.pc = "upsertInsert"
    /\ LET ld == t.task.linkData
           doc == NewDoc(ld, t.task.createdAt) IN
       IF ViolatesUniqueIndex(collection, doc)
       THEN /\ upsertLog' = LogEntry(ld, t.task.createdAt, "duplicateKey")
            /\ UNCHANGED collection
       ELSE /\ collection' = Append(collection, doc)
            /\ upsertLog' = LogEntry(ld, t.task.createdAt, "inserted")
    /\ tasks' = Put(t, NextLink(t.task))
    /\ completed' = Finished(t.task)
    /\ UNCHANGED <<envVars, callVars, countVars, botVars, scraperVars, testModeLinks, now, eventBudget,
                   passed, delivered, fetches, stoppedAt, connError,
                   lookups>>

\* updateOne rejects with a connectivity error: caught and logged (174-176);
\* the model lets this happen once in a run
UpsertFails(t) ==
    /\ t.task.pc = "upsertMatch"
    /\ ~connError
    /\ connError' = TRUE
    /\ UNCHANGED upsertLog
    /\ tasks' = Put(t, AfterWriteError(t.task))
    /\ completed' = Finished(t.task)
    /\ UNCHANGED <<envVars, callVars, countVars, botVars, scraperVars, storeVars, now, eventBudget,
                   passed, delivered, fetches, stoppedAt, lookups>>


(***************************************************************************)
(* scrapeHistoricalMessages (src/bot.js:226-353).                          *)
(***************************************************************************)
ChannelOfSlot(i) == allowedChannels[i]

PassEntry(by, slot, m) ==
    [by |-> by, slot |-> slot, id |-> m.id, createdAt |-> m.createdAt]

\* the 'ready' handler (382-417): it runs scrapeHistoricalMessages when the
\* scrape is enabled; the function runs up to its first await or return
Ready ==
    /\ scraperPc = "init"
    /\ IF ~ENABLE_HISTORICAL_SCRAPING
       THEN /\ scraperPc' = "notRun"
            /\ UNCHANGED <<fromDate, chanIdx, scrapingInProgress>>
       ELSE /\ fromDate' = parseScrapingDate(SCRAPE_FROM_DATE)
            /\ IF fromDate' = NoDate
               THEN /\ scraperPc' = "returned"
                    /\ UNCHANGED <<chanIdx, scrapingInProgress>>
               ELSE IF Len(allowedChannels) = 0
               THEN /\ scraperPc' = "returned"
                    /\ scrapingInProgress' = FALSE
                    /\ UNCHANGED chanIdx
               ELSE /\ scraperPc' = "fetchChannel"
                    /\ scrapingInProgress' = TRUE
                    /\ chanIdx' = 1
    /\ UNCHANGED <<envVars, callVars, countVars, historicalScrapingComplete, storeVars, lastMessageId,
                   hasMoreMessages, page, pageIdx, messagesInDateRange, tasks, now,
                   eventBudget, obsVars>>

\* this.scrapingInProgress = false; this.historicalScrapingComplete = true
\* (343-344)
FlagsLeftInProgress == [scrapingInProgress |-> TRUE, historicalScrapingComplete |-> TRUE]
FlagsAtEnd == [scrapingInProgress |-> FALSE, historicalScrapingComplete |-> TRUE]

\* the for loop over allowedChannels moves on; after the last channel the
\* flags are set (343-344) and the function returns
NextChannel ==
    IF chanIdx < Len(allowedChannels)
    THEN /\ chanIdx' = chanIdx + 1
         /\ scraperPc' = "fetchChannel"
         /\ UNCHANGED botVars
    ELSE /\ chanIdx' = chanIdx + 1
         /\ scraperPc' = "returned"
         /\ scrapingInProgress' = FlagsAtEnd.scrapingInProgress
         /\ historicalScrapingComplete' = FlagsAtEnd.historicalScrapingComplete

MarkFailed(slot) == [fetches EXCEPT ![slot].failed = TRUE]

\* the catch around the page loop (326-333): in both of its branches the
\* while loop is left with break, and the for loop goes on
RetryAfterFetchError == scraperPc' = "fetchPage" /\ UNCHANGED <<chanIdx, botVars>>
BreakAfterFetchError == NextChannel

\* client.channels.fetch(channelId) returns (256-266) or fails (257-260, 338-340)
FetchChannel ==
    /\ scraperPc = "fetchChannel"
    /\ \/ /\ scraperPc' = "fetchPage"
          /\ lastMessageId' = NoId
          /\ hasMoreMessages' = TRUE
          /\ UNCHANGED <<chanIdx, botVars, fetches>>
       \/ /\ NextChannel
          /\ fetches' = MarkFailed(chanIdx)
          /\ UNCHANGED <<lastMessageId, hasMoreMessages>>
    /\ UNCHANGED <<envVars, callVars, countVars, storeVars, fromDate, page, pageIdx, messagesInDateRange,
                   tasks, now, eventBudget, passed, delivered, stoppedAt, upsertLog,
                   completed, connError,
                   lookups>>

\* messages.size === 0 (277)
NeverEmptyPage(messages) == FALSE
IsEmptyPage(messages) == Len(messages) = 0

\* channel.messages.fetch(options) returns a page (275-284) or fails (326-333)
FetchPage ==
    /\ scraperPc = "fetchPage"
    /\ \/ LET messages == FetchBefore(ChannelOfSlot(chanIdx), lastMessageId, BATCH_SIZE) IN
          /\ fetches' = [fetches EXCEPT ![chanIdx].n = @ + 1]
          /\ IF IsEmptyPage(messages)
             THEN /\ hasMoreMessages' = FALSE
                  /\ NextChannel
                  /\ UNCHANGED <<page, pageIdx, messagesInDateRange>>
             ELSE /\ page' = messages
                  /\ pageIdx' = 1
                  /\ messagesInDateRange' = 0
                  /\ scraperPc' = "iterate"
                  /\ UNCHANGED <<chanIdx, botVars, hasMoreMessages>>
       \/ /\ fetches' = [fetches EXCEPT ![chanIdx].n = @ + 1, ![chanIdx].failed = TRUE]
          /\ BreakAfterFetchError
          /\ UNCHANGED <<page, pageIdx, messagesInDateRange, hasMoreMessages>>
    /\ UNCHANGED <<envVars, callVars, countVars, storeVars, fromDate, lastMessageId, tasks, now,
                   eventBudget, passed, delivered, stoppedAt, upsertLog, completed,
                   connError,
                   lookups>>

\* hasMoreMessages after the loop over the page (312-314)
HasMoreAfterPage(hasMore, inRange) == IF inRange = 0 THEN FALSE ELSE hasMore

\* what line 289 assigns to hasMoreMessages
KeepGoingAtBoundary == TRUE
HasMoreAtBoundary == FALSE

\* the rate limiting after a page (322-324): the timer is awaited only for
\* a positive delay
AfterPageNoDelay == "loop"
AfterPage == IF DELAY_BETWEEN_BATCHES > 0 THEN "sleep" ELSE "loop"

\* one turn of the loop over the page (286-308), up to the await of
\* processMessage, or the code after the loop up to the sleep (310-324)
Iterate ==
    /\ scraperPc = "iterate"
    /\ IF pageIdx > Len(page)
       THEN /\ hasMoreMessages' = HasMoreAfterPage(hasMoreMessages, messagesInDateRange)
            /\ scraperPc' = AfterPage
            /\ UNCHANGED <<messagesInDateRange, tasks, passed, stoppedAt, completed,
                           chanIdx, botVars>>
       ELSE IF IsBeforeCutoff(page[pageIdx])
       THEN /\ hasMoreMessages' = HasMoreAfterPage(HasMoreAtBoundary, messagesInDateRange)
            /\ scraperPc' = AfterPage
            /\ stoppedAt' = [stoppedAt EXCEPT ![chanIdx] =
                               [hit |-> TRUE, n |-> fetches[chanIdx].n,
                                rest |-> {page[i].id : i \in pageIdx..Len(page)}]]
            /\ UNCHANGED <<messagesInDateRange, tasks, passed, completed, chanIdx,
                           botVars>>
       ELSE IF ~page[pageIdx].readable
       THEN \* processMessage (298) or the count of the links (301) raises;
            \* the catch at 326-333 leaves the while loop
            /\ messagesInDateRange' = messagesInDateRange + 1
            /\ passed' = Append(passed, PassEntry("scraper", chanIdx, page[pageIdx]))
            /\ NextChannel
            /\ UNCHANGED <<hasMoreMessages, tasks, stoppedAt, completed>>
       ELSE /\ messagesInDateRange' = messagesInDateRange + 1
            /\ passed' = Append(passed, PassEntry("scraper", chanIdx, page[pageIdx]))
            /\ tasks' = [tasks EXCEPT !.scraper = EnterPipeline(page[pageIdx])]
            /\ completed' = IF tasks'.scraper.pc = "idle"
                            THEN completed \cup {page[pageIdx].id} ELSE completed
            /\ scraperPc' = "awaitPipeline"
            /\ UNCHANGED <<hasMoreMessages, stoppedAt, chanIdx, botVars>>
    /\ UNCHANGED <<envVars, callVars, countVars, storeVars, fromDate, lastMessageId, page, pageIdx, now,
                   eventBudget, delivered, fetches, upsertLog, connError,
                   lookups>>

\* await this.processMessage(message) (298): the loop goes on when the
\* activation has returned
NeverResumes == FALSE
DoesNotAwait == TRUE
AwaitsPipeline == tasks.scraper.pc = "idle"

\* lastMessageId = message.id (307)
CursorKept(m) == lastMessageId
CursorAfter(m) == m.id

\* the links of the message are extracted once more and counted (301-305)
LinksCounted(m) == Len(extractTwitterLinks(m.content))

\* processMessage has returned: the links are counted (301-305) and the
\* cursor moves to the message (307)
PipelineReturns ==
    /\ scraperPc = "awaitPipeline"
    /\ AwaitsPipeline
    /\ totalLinksFound' = totalLinksFound + LinksCounted(page[pageIdx])
    /\ lastMessageId' = CursorAfter(page[pageIdx])
    /\ pageIdx' = pageIdx + 1
    /\ scraperPc' = "iterate"
    /\ UNCHANGED <<envVars, callVars, savedByScraper, botVars, storeVars, fromDate, chanIdx, hasMoreMessages,
                   page, messagesInDateRange, tasks, now, eventBudget, obsVars>>

\* the inter-batch sleep is over (322-324); the while condition is tested
Sleep ==
    /\ scraperPc \in {"sleep", "loop"}
    /\ IF hasMoreMessages
       THEN /\ scraperPc' = "fetchPage"
            /\ UNCHANGED <<chanIdx, botVars>>
       ELSE NextChannel
    /\ UNCHANGED <<envVars, callVars, countVars, storeVars, fromDate, lastMessageId, hasMoreMessages,
                   page, pageIdx, messagesInDateRange, tasks, now, eventBudget,
                   obsVars>>

(***************************************************************************)
(* The messageCreate handler (src/bot.js:419-429).  The gateway announces  *)
(* messages in the order of their creation and may announce one again.     *)
(***************************************************************************)
MessageCreate(m) ==
    /\ eventBudget > 0
    /\ \A i \in DOMAIN delivered : delivered[i].id <= m.id
    /\ eventBudget' = eventBudget - 1
    /\ delivered' = Append(delivered, [id |-> m.id, gate |-> LiveGate])
    /\ IF LiveGate
       THEN /\ tasks' = [tasks EXCEPT !.live = @ (+) Pending(EnterPipeline(m))]
            /\ passed' = Append(passed, PassEntry("live", 0, m))
            /\ completed' = IF ReturnsAtOnce(m)
                            THEN completed \cup {m.id} ELSE completed
       ELSE UNCHANGED <<tasks, passed, completed>>
    /\ UNCHANGED <<envVars, callVars, countVars, botVars, storeVars, scraperVars, now, fetches,
                   stoppedAt, upsertLog, connError,
                   lookups>>

Next ==
    \/ Ready
    \/ FetchChannel
    \/ FetchPage
    \/ Iterate
    \/ PipelineReturns
    \/ Sleep
    \/ \E m \in LiveMessages : MessageCreate(m)
    \/ \E t \in InFlight : ExpandReturns(t)
    \/ \E t \in InFlight : UpsertMatch(t)
    \/ \E t \in InFlight : UpsertInsert(t)
    \/ \E t \in InFlight : UpsertFails(t)

Spec == Init /\ [][Next]_vars

\* a step of the activation of processMessage that the scraper awaits
ScraperTaskStep ==
    \E t \in InFlight :
        /\ t.who = "scraper"
        /\ ExpandReturns(t) \/ UpsertMatch(t) \/ UpsertInsert(t) \/ UpsertFails(t)

\* what the platform guarantees to the scraper: the 'ready' event is
\* emitted, every call of the message source is answered with a result or
\* an error, the HEAD request ends within its timeout and the driver
\* answers or rejects every updateOne, timers fire, and the event loop runs
\* every continuation that is ready
Fairness ==
    /\ WF_vars(Ready)
    /\ WF_vars(FetchChannel)
    /\ WF_vars(FetchPage)
    /\ WF_vars(Iterate)
    /\ WF_vars(PipelineReturns)
    /\ WF_vars(Sleep)
    /\ WF_vars(ScraperTaskStep)

\* environments that exercise the end of the scrape: one or two channels,
\* any history of c1 up to MaxHist messages in any time order, and, with
\* the shortest histories, a live message that may arrive at any moment
InitTerminate ==
    /\ ENABLE_HISTORICAL_SCRAPING = TRUE
    /\ SCRAPE_FROM_DATE = "2024-01-01"
    /\ TEST_MODE = TRUE
    /\ GUILD_ID = Null
    /\ CHANNEL_ID_1 = "c1"
    /\ CHANNEL_ID_2 \in {Null, "c2"}
    /\ \E ts1 \in TimeSeqs(MaxHist) :
          history = [c \in Channels |->
                        IF c = "c1" THEN HistoryOf(c, ts1)
                        ELSE HistoryOf(c, <<MaxTime>>)]
    /\ eventBudget = IF Len(history["c1"]) <= 1 THEN 1 ELSE 0

InitFair == InitBot /\ InitNoCall /\ (InitTerminate \/ InitFaulty)

\* the bot under these guarantees
SpecFair == InitFair /\ [][Next]_vars /\ Fairness

(***************************************************************************)
(* The two stores side by side: saveLinkToDatabase is given the same       *)
(* records, one after the other, once as it runs in test mode               *)
(* (src/bot.js:138-157) and once as it runs against MongoDB                 *)
(* (src/bot.js:159-176).                                                    *)
(***************************************************************************)
InitStores ==
    /\ InitBot
    /\ InitNoCall
    /\ ENABLE_HISTORICAL_SCRAPING = FALSE
    /\ SCRAPE_FROM_DATE = "2024-01-01"
    /\ TEST_MODE = FALSE
    /\ GUILD_ID = Null
    /\ CHANNEL_ID_1 = Null
    /\ CHANNEL_ID_2 = Null
    /\ history = [c \in Channels |-> <<>>]
    /\ eventBudget = MaxUpserts

\* the messages whose links are saved: the live ones and two older ones
SavedMessages ==
    LiveMessages \cup
      { Message(101, "c1", "g1", FALSE, "a1", <<URefTco>>, 0),
        Message(102, "c1", "g1", FALSE, "a1", <<UShort>>, 1) }

\* one call of saveLinkToDatabase(linkData) for a link of a message, applied
\* to both stores
SaveToBoth ==
    /\ eventBudget > 0
    /\ \E m \in SavedMessages :
        \E i \in DOMAIN extractTwitterLinks(m.content) :
        \E foundAt \in ClockReads(now) :
        \E createdAt \in ClockReads(foundAt) :
          LET link == extractTwitterLinks(m.content)[i]
              ld == LinkData(link, link, m, foundAt) IN
          /\ testModeLinks' = saveLinkTestMode(testModeLinks, ld)
          /\ collection' = updateOne(collection, ld, createdAt)
          /\ now' = createdAt
    /\ eventBudget' = eventBudget - 1
    /\ UNCHANGED <<envVars, callVars, countVars, botVars, scraperVars, tasks, obsVars>>

NextStores == SaveToBoth

SpecStores == InitStores /\ [][NextStores]_vars

(***************************************************************************)
(* extractTwitterLinks (src/bot.js:85-119) on its own: it is called once   *)
(* with a text of up to MaxWords words.                                    *)
(***************************************************************************)
Words ==
    {UStatus, UStatusPlain, UStatusComma, UStatusUpper, UStatusNoId, UProfile,
     UProfilePlain, UShort, UOther, URefTco}

Texts == UNION {[1..n -> Words] : n \in 0..MaxWords}

InitExtract ==
    /\ InitBot
    /\ ENABLE_HISTORICAL_SCRAPING = FALSE
    /\ SCRAPE_FROM_DATE = "2024-01-01"
    /\ TEST_MODE = TRUE
    /\ GUILD_ID = Null
    /\ CHANNEL_ID_1 = Null
    /\ CHANNEL_ID_2 = Null
    /\ history = [c \in Channels |-> <<>>]
    /\ eventBudget = 0
    /\ inputText \in Texts
    /\ extractPc = "idle"
    /\ foundLinks = <<>>

\* the call of extractTwitterLinks(text) returns
Extract ==
    /\ extractPc = "idle"
    /\ extractPc' = "returned"
    /\ foundLinks' = extractTwitterLinks(inputText)
    /\ UNCHANGED <<envVars, botVars, storeVars, scraperVars, tasks, now, eventBudget,
                   obsVars, inputText, stopPc, countVars>>

NextExtract == Extract

SpecExtract == InitExtract /\ [][NextExtract]_vars

(***************************************************************************)
(* Shutdown: the handlers of SIGINT and SIGTERM (src/bot.js:552-560) call  *)
(* stop() (459-468) and then process.exit(0).  stop() awaits               *)
(* client.destroy() and then, with a database, db.client.close(); it       *)
(* waits for nothing else.  Until the process exits, the activations of    *)
(* processMessage and the scraper go on between these steps.               *)
(***************************************************************************)
botFrame ==
    <<envVars, botVars, storeVars, scraperVars, tasks, now, eventBudget, obsVars,
      textVars, countVars>>

\* a signal arrives: stop() runs up to the await of client.destroy()
Signal ==
    /\ stopPc = "running"
    /\ stopPc' = "destroying"
    /\ UNCHANGED botFrame

\* client.destroy() has returned: with a database, db.client.close() is
\* called; without one, stop() returns and the process exits
DestroyReturns ==
    /\ stopPc = "destroying"
    /\ stopPc' = IF TEST_MODE THEN "exited" ELSE "closing"
    /\ UNCHANGED botFrame

\* db.client.close() has returned: stop() returns and the process exits
CloseReturns ==
    /\ stopPc = "closing"
    /\ stopPc' = "exited"
    /\ UNCHANGED botFrame

\* the bot goes on until the process has exited; once the client is
\* destroyed it delivers no event and answers no fetch, and what goes on is
\* the code that waits for the lookup, for the database or for the timer
BotStep ==
    \/ stopPc \in {"running", "destroying"} /\ Next
    \/ /\ stopPc = "closing"
       /\ \/ Iterate
          \/ PipelineReturns
          \/ Sleep
          \/ \E t \in InFlight : ExpandReturns(t)
          \/ \E t \in InFlight : UpsertMatch(t)
          \/ \E t \in InFlight : UpsertInsert(t)
          \/ \E t \in InFlight : UpsertFails(t)

InitStop == InitBot /\ InitNoCall /\ (InitStore \/ InitFaulty)

NextStop == Signal \/ DestroyReturns \/ CloseReturns \/ BotStep

SpecStop == InitStop /\ [][NextStop]_vars


(***************************************************************************)
(* Properties.                                                             *)
(***************************************************************************)
ScraperPassed(slot) ==
    {i \in DOMAIN passed : passed[i].by = "scraper" /\ passed[i].slot = slot}
LivePassed == {i \in DOMAIN passed : passed[i].by = "live"}

\* the scraper has run its loop over every configured channel to the end
FinishedEveryChannel ==
    scraperPc = "returned" /\ chanIdx > Len(allowedChannels)

EventDelivered == delivered' # delivered
DeliveredMessage == delivered'[Len(delivered')].id

\* C1: with the historical scrape enabled, a message-created event that
\* arrives before the scraper has finished every configured channel is not
\* passed to processMessage; with the scrape disabled, every event is passed.
C1_LiveGatedByScrape ==
    [][EventDelivered =>
         IF ENABLE_HISTORICAL_SCRAPING
         THEN (~FinishedEveryChannel => passed' = passed)
         ELSE /\ Len(passed') = Len(passed) + 1
              /\ passed'[Len(passed')].by = "live"
              /\ passed'[Len(passed')].id = DeliveredMessage]_vars

C1_Witness ==
    /\ ENABLE_HISTORICAL_SCRAPING
    /\ \E i \in DOMAIN delivered : ~delivered[i].gate
    /\ LivePassed # {}

\* C2: in every configuration, once scrapeHistoricalMessages has returned,
\* every message-created event delivered afterwards is passed to processMessage.
C2_LiveAfterScraperReturned ==
    [][(scraperPc = "returned" /\ EventDelivered) =>
         /\ Len(passed') = Len(passed) + 1
         /\ passed'[Len(passed')].by = "live"]_vars

\* C3: the scraper never passes to processMessage a message created before
\* the cutoff, whatever the order of the messages in the pages, and it does
\* pass the message it examines when that one was created exactly at the cutoff.
C3_NothingOlderThanCutoff ==
    /\ [](\A i \in DOMAIN passed :
            passed[i].by = "scraper" => passed[i].createdAt >= fromDate)
    /\ [][(/\ scraperPc = "iterate"
           /\ pageIdx <= Len(page)
           /\ page[pageIdx].createdAt = fromDate
           /\ scraperPc' # "iterate")
          => passed' = Append(passed, PassEntry("scraper", chanIdx, page[pageIdx]))]_vars

Unsorted(h) == \E i, j \in DOMAIN h : i < j /\ h[i].createdAt < h[j].createdAt

C3_Witness ==
    /\ \E i \in DOMAIN passed :
          passed[i].by = "scraper" /\ passed[i].createdAt = fromDate
    /\ Unsorted(history["c1"])
    /\ \E s \in Slots : stoppedAt[s].hit

Sorted(h) == ~Unsorted(h)

TimesPassedByScraper(id) ==
    Cardinality({i \in DOMAIN passed : passed[i].by = "scraper" /\ passed[i].id = id})

\* C4: whatever the two channel slots hold, when the scrape of newest-first
\* histories of readable messages has finished without a failed fetch, every
\* message of a configured channel created at or after the cutoff has been
\* passed to processMessage by the scraper exactly once.
C4_EveryMessageExactlyOnce ==
    (/\ historicalScrapingComplete
     /\ \A s \in Slots : ~fetches[s].failed
     /\ \A c \in Channels : Sorted(history[c])
     /\ \A c \in Channels : \A k \in DOMAIN history[c] : history[c][k].readable)
    => \A s \in 1..Len(allowedChannels) :
         \A k \in DOMAIN history[ChannelOfSlot(s)] :
            LET m == history[ChannelOfSlot(s)][k] IN
            m.createdAt >= fromDate => TimesPassedByScraper(m.id) = 1

\* C5: once the traversal of a channel has met a message created before the
\* cutoff, that traversal passes neither this message nor any later message
\* of the page to processMessage, and it fetches no further page.
C5_StopAtBoundary ==
    \A s \in Slots :
        stoppedAt[s].hit =>
            /\ fetches[s].n = stoppedAt[s].n
            /\ \A i \in ScraperPassed(s) : passed[i].id \notin stoppedAt[s].rest

\* the boundary is met in the first page, after a message in range, while
\* the channel holds more messages than the page
C5_Witness ==
    \E s \in Slots :
        /\ stoppedAt[s].hit
        /\ ScraperPassed(s) # {}
        /\ fetches[s].n = 1
        /\ Len(history[ChannelOfSlot(s)]) > BATCH_SIZE
        /\ scraperPc = "returned"


(***************************************************************************)
(* Reading the store (TwitterLinkQuery, src/bot.js:472-545).               *)
(***************************************************************************)
\* .sort({foundAt: -1}): s ordered by foundAt, newest first
RECURSIVE InsertByFoundAt(_, _)
InsertByFoundAt(d, s) ==
    IF s = <<>> THEN <<d>>
    ELSE IF d.foundAt > Head(s).foundAt THEN <<d>> \o s
    ELSE <<Head(s)>> \o InsertByFoundAt(d, Tail(s))

RECURSIVE SortByFoundAtDesc(_)
SortByFoundAtDesc(s) ==
    IF s = <<>> THEN <<>>
    ELSE InsertByFoundAt(s[Len(s)], SortByFoundAtDesc(SubSeq(s, 1, Len(s) - 1)))

getLinksByUser(authorId, limit) ==
    Take(SortByFoundAtDesc(SelectSeq(collection, LAMBDA d : d.authorId = authorId)),
         limit)

\* .sort({messageTimestamp: -1}): s ordered by messageTimestamp, newest first
RECURSIVE InsertByMessageTimestamp(_, _)
InsertByMessageTimestamp(d, s) ==
    IF s = <<>> THEN <<d>>
    ELSE IF d.messageTimestamp > Head(s).messageTimestamp THEN <<d>> \o s
    ELSE <<Head(s)>> \o InsertByMessageTimestamp(d, Tail(s))

RECURSIVE SortByMessageTimestampDesc(_)
SortByMessageTimestampDesc(s) ==
    IF s = <<>> THEN <<>>
    ELSE InsertByMessageTimestamp(s[Len(s)],
                                  SortByMessageTimestampDesc(SubSeq(s, 1, Len(s) - 1)))

\* find({messageTimestamp: {$gte, $lte}}).sort({messageTimestamp: -1})
getLinksByDateRangeOfFoundAt(startDate, endDate) ==
    SortByFoundAtDesc(
        SelectSeq(collection,
                  LAMBDA d : d.foundAt >= startDate /\ d.foundAt <= endDate))
getLinksByDateRange(startDate, endDate) ==
    SortByMessageTimestampDesc(
        SelectSeq(collection,
                  LAMBDA d : d.messageTimestamp >= startDate
                               /\ d.messageTimestamp <= endDate))

(***************************************************************************)
(* Properties of the store.                                                *)
(***************************************************************************)
\* C6: in persistent mode, after two or more upserts of the same
\* (messageId, url) the collection holds exactly one document of that key,
\* with the createdAt of the first insert and the foundAt of the latest upsert.
C6_UpsertIdempotent ==
    ~TEST_MODE =>
        \A r \in upsertLog :
            r.answered >= 2 =>
                /\ Cardinality(DocsOfKey(r)) = 1
                /\ \A i \in DocsOfKey(r) :
                      /\ r.insertedAt # NoDate
                      /\ collection[i].createdAt = r.insertedAt
                      /\ collection[i].foundAt = r.lastFoundAt

NoDuplicateKey(s) ==
    \A i, j \in DOMAIN s : SameKey(s[i], s[j]) => i = j

\* C7: in both storage modes and under every interleaving of the writers,
\* the store never holds two records with the same (messageId, url).
C7_KeyUnique ==
    NoDuplicateKey(collection) /\ NoDuplicateKey(testModeLinks)

\* two writers of one key overlapped: one of them found no document, and by
\* the time it inserted the other had stored the key
C7_Witness ==
    \E r \in upsertLog : r.raced /\ DocsOfKey(r) # {}

KnownMessages ==
    LiveMessages
      \cup UNION {{history[c][k] : k \in DOMAIN history[c]} : c \in Channels}

CanonicalWithoutLookup(m) ==
    \A i \in DOMAIN extractTwitterLinks(m.content) :
        ~IncludesTco(extractTwitterLinks(m.content)[i])

\* C8: in persistent mode and without connectivity errors, a processed
\* message with k >= 2 distinct canonical URLs has k documents in the
\* collection, one per (messageId, url).
C8_OneRecordPerLink ==
    (~TEST_MODE /\ ~connError) =>
        \A m \in KnownMessages :
            (/\ m.id \in completed
             /\ AcceptsMessage(m)
             /\ CanonicalWithoutLookup(m)
             /\ Len(extractTwitterLinks(m.content)) >= 2)
            => /\ Cardinality({i \in DOMAIN collection :
                                 collection[i].messageId = m.id})
                    = Len(extractTwitterLinks(m.content))
               /\ \A j \in DOMAIN extractTwitterLinks(m.content) :
                     \E i \in DOMAIN collection :
                        /\ collection[i].messageId = m.id
                        /\ collection[i].url = extractTwitterLinks(m.content)[j]

InResult(res, id, url) ==
    \E i \in DOMAIN res : res[i].messageId = id /\ res[i].url = url

\* C9: in persistent mode, two processed messages with different messageId
\* that carry the same link from the same author leave two distinct documents,
\* and getLinksByUser for that author returns both when the limit allows.
C9_SameLinkTwoMessages ==
    (~TEST_MODE /\ ~connError) =>
        \A m1, m2 \in LiveMessages :
            (/\ m1.id # m2.id
             /\ m1.authorId = m2.authorId
             /\ {m1.id, m2.id} \subseteq completed
             /\ AcceptsMessage(m1) /\ AcceptsMessage(m2))
            => \A j1 \in DOMAIN extractTwitterLinks(m1.content) :
                 \A j2 \in DOMAIN extractTwitterLinks(m2.content) :
                    LET u == extractTwitterLinks(m1.content)[j1]
                        res == getLinksByUser(m1.authorId, Len(collection) + 2) IN
                    (u = extractTwitterLinks(m2.content)[j2] /\ ~IncludesTco(u))
                    => InResult(res, m1.id, u) /\ InResult(res, m2.id, u)

\* C10: every document of the collection has createdAt <= foundAt.
C10_CreatedBeforeFound ==
    \A i \in DOMAIN collection : collection[i].createdAt <= collection[i].foundAt


\* a record of one store and a record of the other have the same fields with
\* the same values
SameRecord(a, d) == DOMAIN a = DOMAIN d /\ \A f \in DOMAIN a : a[f] = d[f]

\* C11: after every sequence of upserts the in-memory store and the
\* persistent store hold the same records with the same field values,
\* foundAt and createdAt included.
C11_StoresAgree ==
    /\ Len(testModeLinks) = Len(collection)
    /\ \A i \in DOMAIN testModeLinks : SameRecord(testModeLinks[i], collection[i])

\* the scraper has returned after an attempt on every configured channel
AttemptedEveryChannel ==
    /\ historicalScrapingComplete
    /\ \A r \in 1..Len(allowedChannels) : fetches[r].n > 0 \/ fetches[r].failed

C13_LaterMessagesProcessed ==
    (/\ historicalScrapingComplete
     /\ \A s \in Slots : ~fetches[s].failed
     /\ \A c \in Channels : Sorted(history[c]))
    => \A s \in 1..Len(allowedChannels) :
         \A k \in DOMAIN history[ChannelOfSlot(s)] :
            LET m == history[ChannelOfSlot(s)][k] IN
            m.createdAt >= fromDate => TimesPassedByScraper(m.id) >= 1

WriteFailed == connError' /\ ~connError

\* C14: a step in which the write of a link fails leaves both stores as they
\* were, and the activation whose write failed goes on to its next link, or
\* returns to its caller when there is none; the scraper is not disturbed.
C14_WriteErrorNotPropagated ==
    [][WriteFailed =>
         /\ storeVars' = storeVars
         /\ \E t \in InFlight :
               /\ t.task.pc = "upsertMatch"
               /\ tasks' = Put(t, NextLink(t.task))
         /\ scraperVars' = scraperVars
         /\ botVars' = botVars]_vars

\* the write of the first link of message 301 failed and its second link is stored
C14_Witness ==
    /\ connError
    /\ \E i \in DOMAIN collection :
          collection[i].messageId = 301 /\ collection[i].url = StripPunct(UProfile)

\* the records submitted to a store so far or about to be
Submitted ==
    {collection[i] : i \in DOMAIN collection}
      \cup {testModeLinks[i] : i \in DOMAIN testModeLinks}
      \cup {t.task.linkData : t \in {x \in InFlight : x.task.pc \in {"upsertMatch", "upsertInsert"}}}

\* C15: expandShortUrl always returns a URL; when the lookup failed it
\* returns the URL it was given, and the record built from it has url equal
\* to originalUrl.
C15_LookupFailureKeepsUrl ==
    /\ \A l \in lookups : l.url # NoUrl /\ (l.failed => l.url = l.originalUrl)
    /\ \A u \in {UShort, URefTco, UStatusPlain} : \A o \in HeadOutcomes :
          o.kind \in HeadFailures => expandShortUrl(u, o) = u

\* a lookup has failed and the record of the link is stored with the short URL
C15_Witness ==
    /\ \E l \in lookups : l.failed /\ l.originalUrl = UShort
    /\ \E i \in DOMAIN collection :
          collection[i].url = UShort /\ collection[i].originalUrl = UShort

\* C16: for a link whose host is not the shortener's, expandShortUrl makes no
\* request and the record is built with the link unchanged.
C16_OnlyShortHostLookedUp ==
    \A l \in lookups :
        l.originalUrl.host # ShortHost => (~l.requested /\ l.url = l.originalUrl)

CutoffUnusable == SCRAPE_FROM_DATE = "" \/ DateGetTime(SCRAPE_FROM_DATE) = NoDate

\* C17: with the scrape enabled and a cutoff that is missing or is no date,
\* the scraper returns from its first step: it fetches no channel and no
\* page and passes no message to processMessage.
C17_NoScrapeWithoutCutoff ==
    (ENABLE_HISTORICAL_SCRAPING /\ CutoffUnusable) =>
        /\ scraperPc \in {"init", "returned"}
        /\ chanIdx = 0
        /\ ~scrapingInProgress
        /\ \A s \in Slots : fetches[s].n = 0 /\ ~fetches[s].failed
        /\ \A i \in DOMAIN passed : passed[i].by # "scraper"

\* the scraper has returned for an unusable cutoff although a channel is
\* configured, and the bot goes on receiving events
C17_Witness ==
    /\ ENABLE_HISTORICAL_SCRAPING
    /\ SCRAPE_FROM_DATE = "not-a-date"
    /\ CHANNEL_ID_1 = "c1"
    /\ scraperPc = "returned"
    /\ Len(delivered) > 0

\* the fetch of a page returns, and the page holds no message
EmptyPageFetched ==
    /\ scraperPc = "fetchPage"
    /\ fetches'[chanIdx].n = fetches[chanIdx].n + 1
    /\ ~fetches'[chanIdx].failed
    /\ FetchBefore(ChannelOfSlot(chanIdx), lastMessageId, BATCH_SIZE) = <<>>

\* C18: when the fetch of a page returns no message, the channel is done at
\* once: nothing is passed to processMessage, no activation starts, the
\* stores stay as they are, no failure is recorded, the scraper is at the
\* next channel (or has returned with the scrape complete), and no page of
\* a channel it has left is fetched any more.
C18_EmptyPageEndsChannel ==
    /\ [][EmptyPageFetched =>
            /\ passed' = passed
            /\ tasks' = tasks
            /\ storeVars' = storeVars
            /\ chanIdx' = chanIdx + 1
            /\ scraperPc' = IF chanIdx < Len(allowedChannels)
                            THEN "fetchChannel" ELSE "returned"
            /\ scraperPc' = "returned" => historicalScrapingComplete']_vars
    /\ [][\A s \in Slots : s < chanIdx => fetches'[s] = fetches[s]]_vars

\* the second page of the first channel was empty, and the second channel
\* has been scraped after it
C18_Witness ==
    /\ Len(allowedChannels) = 2
    /\ Len(history[ChannelOfSlot(1)]) = BATCH_SIZE
    /\ fetches[1].n = 2
    /\ ~fetches[1].failed
    /\ ~stoppedAt[1].hit
    /\ Cardinality(ScraperPassed(1)) = BATCH_SIZE
    /\ ScraperPassed(2) # {}

MessageOfId(id) == CHOOSE m \in KnownMessages : m.id = id

\* the message is the bot's own or a bot's, of another guild than the
\* configured one, or of a channel outside a non-empty list of channels
RejectedByFilter(m) ==
    \/ m.bot
    \/ GUILD_ID # Null /\ m.guildId # GUILD_ID
    \/ allowedChannels # <<>> /\ ~InSeq(m.channelId, allowedChannels)

NothingToDo(m) ==
    m.readable /\ (RejectedByFilter(m) \/ extractTwitterLinks(m.content) = <<>>)

MessagePassed == Len(passed') = Len(passed) + 1
PassedMessage == MessageOfId(passed'[Len(passed')].id)

\* C19: passing to processMessage a message that the filter rejects or that
\* holds no link starts no activation, looks nothing up and leaves the
\* stores as they are; no activation is ever at work for such a message.
C19_NothingToDoIsNoOp ==
    /\ [][(MessagePassed /\ NothingToDo(PassedMessage)) =>
            /\ tasks' = tasks
            /\ storeVars' = storeVars
            /\ lookups' = lookups
            /\ upsertLog' = upsertLog]_vars
    /\ [](\A t \in InFlight :
            t.task.pc # "idle" => ~NothingToDo(t.task.message))

\* a bot's message with a link and a message without a link have been
\* passed, and nothing has come of them
C19_Witness ==
    /\ \E i, j \in ScraperPassed(1) : passed[i].id = 104 /\ passed[j].id = 103
    /\ RejectedByFilter(MessageOfId(104))
    /\ ~RejectedByFilter(MessageOfId(103))
    /\ lookups = {}
    /\ testModeLinks = <<>>
    /\ collection = <<>>

NothingConfigured == GUILD_ID = Null /\ allowedChannels = <<>>

\* C20: every record submitted to a store is of a message that no bot wrote,
\* of the configured guild when one is configured, and of a configured
\* channel when one is configured; and with no guild and no channel
\* configured, every readable message with a link that no bot wrote and
\* that is passed to processMessage starts an activation for its links.
C20_OnlyAllowedMessagesStored ==
    /\ [](\A d \in Submitted :
            LET m == MessageOfId(d.messageId) IN
            /\ ~m.bot
            /\ GUILD_ID # Null => m.guildId = GUILD_ID
            /\ allowedChannels # <<>> => InSeq(m.channelId, allowedChannels))
    /\ [][(/\ MessagePassed
           /\ NothingConfigured
           /\ ~PassedMessage.bot
           /\ PassedMessage.readable
           /\ extractTwitterLinks(PassedMessage.content) # <<>>)
          => /\ BagCardinality(tasks'.live) = BagCardinality(tasks.live) + 1
             /\ \E x \in BagToSet(tasks'.live) :
                   /\ x.pc = "expand"
                   /\ x.message = PassedMessage
                   /\ x.links = extractTwitterLinks(PassedMessage.content)]_vars

\* with a guild and both channels configured, a message of a bot has been
\* passed over and a record of a message of the second channel is submitted
C20_Witness ==
    /\ GUILD_ID = "g1"
    /\ \E i \in ScraperPassed(1) : passed[i].id = 104
    /\ \E j \in ScraperPassed(2) : passed[j].id = 201
    /\ \E d \in Submitted : d.messageId = 201

\* with nothing configured, a record of a message of any guild is submitted
C20_WitnessUnrestricted ==
    /\ NothingConfigured
    /\ \E d \in Submitted : d.messageId = 303 /\ d.guildId = "g2"

Range(f) == {f[i] : i \in DOMAIN f}

\* a word that is a status link: a social host in any case, a user name,
\* "/status/" and a numeric id
IsStatusUrl(u) ==
    Lower(u.host) \in SocialHosts /\ u.user # "" /\ u.status /\ u.id # ""

\* scheme://host/username/status/id
CanonicalStatus(u) == [u EXCEPT !.tail = "", !.punct = ""]

\* C21: for every status link of the text, the links returned that have its
\* host, user name and id are the one link scheme://host/username/status/id,
\* whatever follows the id in the text.
C21_StatusLinksNormalized ==
    extractPc = "returned" =>
        \A k \in DOMAIN inputText :
            LET u == inputText[k] IN
            IsStatusUrl(u) =>
                {l \in Range(foundLinks) :
                    l.status /\ l.host = u.host /\ l.user = u.user /\ l.id = u.id}
                  = {CanonicalStatus(u)}

\* a word that allUrlPattern takes for a link of a social host
IsSocialLink(u) ==
    Lower(u.host) \in SocialHosts /\ (u.user # "" \/ u.status \/ u.tail # "")

\* the same link, followed by any run of . , ; ! ?
SameLink(a, b) == StripPunct(a) = StripPunct(b)

\* the text is N >= 1 times the same link of a social host
OneLinkRepeated ==
    /\ inputText # <<>>
    /\ \A k \in DOMAIN inputText :
          IsSocialLink(inputText[k]) /\ SameLink(inputText[k], inputText[1])

\* C22: for a text that holds the same link of a social host N >= 1 times,
\* each time followed by a run of . , ; ! ? , extractTwitterLinks returns
\* exactly one URL.
C22_RepeatedLinkOnce ==
    (extractPc = "returned" /\ OneLinkRepeated) => Len(foundLinks) = 1

\* the fetch of a page is answered with an error
PageFetchFailed ==
    /\ scraperPc = "fetchPage"
    /\ fetches'[chanIdx].failed
    /\ ~fetches[chanIdx].failed

\* C23: when the fetch of a page fails, the scraper fetches the page again:
\* it stays at the same channel with the same cursor, about to fetch.
C23_FailedPageFetchRetried ==
    [][PageFetchFailed =>
         /\ scraperPc' = "fetchPage"
         /\ chanIdx' = chanIdx
         /\ lastMessageId' = lastMessageId]_vars

\* the activations whose updateOne has been sent and not answered yet
PendingUpserts ==
    {t \in InFlight : t.task.pc \in {"upsertMatch", "upsertInsert"}}

\* C24: once stop() has called close() on the connection of the database, no
\* updateOne of the scraper or of a live handler is pending.
C24_CloseAfterUpserts ==
    stopPc \in {"closing", "exited"} => PendingUpserts = {}

\* the effect of a write that took a store from `before` to `after`
EffectOn(before, after) ==
    IF Len(after) > Len(before) THEN "inserted"
    ELSE IF after # before THEN "updated"
    ELSE "no-op"

SaveCalled == eventBudget' = eventBudget - 1

\* C25: every call of saveLinkToDatabase returns to its caller the effect it
\* had on the store, inserted, updated or no-op, in test mode and against
\* the database.
C25_EffectReported ==
    [][SaveCalled =>
         /\ saveLinkToDatabaseReturns(TRUE, EffectOn(testModeLinks, testModeLinks'))
               = EffectOn(testModeLinks, testModeLinks')
         /\ saveLinkToDatabaseReturns(FALSE, EffectOn(collection, collection'))
               = EffectOn(collection, collection')]_vars

InDateRange(startDate, endDate) ==
    {d \in Range(collection) :
        startDate <= d.messageTimestamp /\ d.messageTimestamp <= endDate}

\* C26: for every start and end, getLinksByDateRange returns each stored
\* document whose messageTimestamp t has start <= t <= end once, returns no
\* other document, and returns them by messageTimestamp, newest first.
C26_DateRangeInclusiveDescending ==
    \A startDate, endDate \in Times :
        LET found == getLinksByDateRange(startDate, endDate) IN
        /\ Range(found) = InDateRange(startDate, endDate)
        /\ Len(found) = Cardinality(InDateRange(startDate, endDate))
        /\ \A i, j \in DOMAIN found :
              i < j => found[i].messageTimestamp >= found[j].messageTimestamp

\* documents of three timestamps are stored, oldest first, and a query whose
\* bounds are the timestamps of two of them returns these two, newest first
C26_Witness ==
    /\ Len(collection) = 3
    /\ collection[1].messageTimestamp = 0
    /\ collection[2].messageTimestamp = 1
    /\ collection[3].messageTimestamp = MaxTime
    /\ getLinksByDateRange(0, 1) = <<collection[2], collection[1]>>

ScraperPasses ==
    Len(passed') > Len(passed) /\ passed'[Len(passed')].by = "scraper"

\* C27: the activation of processMessage that the scraper started is at
\* work only while the scraper waits for it; the scraper moves its cursor,
\* goes to the next message of the page, passes a message or fetches a page
\* only when that activation has returned.
C27_OneMessageAtATime ==
    /\ [](scraperPc # "awaitPipeline" => tasks.scraper.pc = "idle")
    /\ [][(\/ lastMessageId' # lastMessageId
           \/ pageIdx' # pageIdx
           \/ fetches' # fetches
           \/ ScraperPasses)
          => tasks.scraper.pc = "idle"]_vars

\* the scraper waits for the updateOne of a link of a message it passed after
\* others, and its cursor is not at that message yet
C27_Witness ==
    /\ scraperPc = "awaitPipeline"
    /\ tasks.scraper.pc \in {"upsertMatch", "upsertInsert"}
    /\ Len(passed) >= 2
    /\ passed[Len(passed)].id = tasks.scraper.message.id
    /\ lastMessageId # tasks.scraper.message.id

\* the identifiers of the messages the traversal of a slot has passed
PassedIds(slot) == {passed[i].id : i \in ScraperPassed(slot)}

\* a call of channel.messages.fetch is answered, with a page or an error
FetchAnswered ==
    scraperPc = "fetchPage" /\ fetches'[chanIdx].n = fetches[chanIdx].n + 1

PageReceived == FetchAnswered /\ scraperPc' = "iterate"

\* C28: in the traversal of a channel whose history is newest first, the
\* creation times of the messages passed to processMessage never increase;
\* every fetch is made with the identifier of the oldest message passed so
\* far as cursor (unset when none was passed); and a page received holds
\* only messages older than all that were passed, while every message of
\* the page before it was passed, so that no message is in two pages.
C28_CursorMovesBackward ==
    /\ [](\A s \in 1..Len(allowedChannels) :
            Sorted(history[ChannelOfSlot(s)]) =>
                \A i, j \in ScraperPassed(s) :
                    i < j => passed[i].createdAt >= passed[j].createdAt)
    /\ [][FetchAnswered =>
            lastMessageId = IF PassedIds(chanIdx) = {} THEN NoId
                            ELSE Min(PassedIds(chanIdx))]_vars
    /\ [][PageReceived =>
            /\ \A k \in DOMAIN page' : \A id \in PassedIds(chanIdx) : page'[k].id < id
            /\ fetches[chanIdx].n > 0 =>
                  \A k \in DOMAIN page : page[k].id \in PassedIds(chanIdx)]_vars

\* a traversal has received a second page and passed three messages, not all
\* of the same creation time
C28_Witness ==
    /\ Len(allowedChannels) >= 1
    /\ Sorted(history[ChannelOfSlot(1)])
    /\ fetches[1].n = 2
    /\ Cardinality(ScraperPassed(1)) = 3
    /\ \E i, j \in ScraperPassed(1) : passed[i].createdAt > passed[j].createdAt

\* the scraper comes to the call of channel.messages.fetch
ComesToFetch == scraperPc # "fetchPage" /\ scraperPc' = "fetchPage"

\* C30: a page is only fetched at the call of channel.messages.fetch, and
\* the scraper comes to that call either from the start of the channel,
\* for its first page, or from the end of the inter-batch sleep that
\* followed the page before.
C30_SleepBetweenPages ==
    /\ [][(\E s \in Slots : fetches'[s].n # fetches[s].n)
            => scraperPc = "fetchPage"]_vars
    /\ [][ComesToFetch =>
            \/ scraperPc = "fetchChannel" /\ fetches[chanIdx].n = 0
            \/ /\ scraperPc = "sleep"
               /\ DELAY_BETWEEN_BATCHES > 0
               /\ fetches[chanIdx].n > 0
               /\ chanIdx' = chanIdx]_vars

\* the sleep after the first page of a channel is over and the second page
\* is about to be fetched
C30_Witness ==
    /\ scraperPc = "fetchPage"
    /\ fetches[chanIdx].n = 1
    /\ lastMessageId # NoId

\* the loop over the configured channels has been entered (254)
ScrapeStarted == scraperPc = "fetchChannel" /\ chanIdx = 1

\* the loop is past every configured channel and the flags are set (343-344)
ScrapeTerminated ==
    /\ scraperPc = "returned"
    /\ chanIdx = Len(allowedChannels) + 1
    /\ ~scrapingInProgress
    /\ historicalScrapingComplete

\* C29: a historical scrape that has entered the loop over its channels
\* comes to the end of that loop, past every configured channel, and sets
\* the scrape-complete flag, provided every call it awaits is answered.
C29_ScrapeTerminates == ScrapeStarted ~> ScrapeTerminated

\* a scrape over two channels has terminated after a failed fetch in the
\* first and a stored link from the second
C29_Witness ==
    /\ ScrapeTerminated
    /\ Len(allowedChannels) = 2
    /\ fetches[1].failed
    /\ fetches[2].n >= 1
    /\ \E i \in ScraperPassed(2) : TRUE

\* what a word that matches allUrlPattern is to contribute: the normalized
\* status URL when it has a user name, "/status/" and a numeric id, and the
\* word without its trailing punctuation otherwise
Contribution(u) == IF IsStatusUrl(u) THEN CanonicalStatus(u) ELSE StripPunct(u)

\* C31: every word of the text that matches allUrlPattern has its
\* contribution among the links returned by extractTwitterLinks; no matched
\* URL is dropped.
C31_NoMatchDropped ==
    extractPc = "returned" =>
        \A k \in DOMAIN inputText :
            MatchesAllUrlPattern(inputText[k]) =>
                Contribution(inputText[k]) \in Range(foundLinks)

IdsOf(s) == [i \in DOMAIN s |-> s[i].id]
ByLivePath(e) == e.by = "live"
FoundGateOpen(d) == d.gate

\* the scrape is enabled and has not completed
ScrapePending == ENABLE_HISTORICAL_SCRAPING /\ ~historicalScrapingComplete

\* C32: a message-created event delivered while the scrape is enabled and
\* not complete is discarded: that delivery passes nothing to
\* processMessage, and at every later moment, also after the scrape has
\* completed, the messages passed by the live path are exactly, in order,
\* those of the events that were delivered while no scrape was pending.
C32_GatedEventDiscarded ==
    /\ [][EventDelivered =>
            /\ delivered'[Len(delivered')].gate = ~ScrapePending
            /\ ScrapePending => passed' = passed /\ tasks' = tasks]_vars
    /\ [](IdsOf(SelectSeq(passed, ByLivePath))
            = IdsOf(SelectSeq(delivered, FoundGateOpen)))

\* an event was discarded during the scrape, the scrape has completed and a
\* later event was passed to processMessage, and every activation has
\* returned: the discarded message was never passed
C32_Witness ==
    /\ ENABLE_HISTORICAL_SCRAPING
    /\ historicalScrapingComplete
    /\ Len(delivered) = 2
    /\ ~delivered[1].gate
    /\ delivered[2].gate
    /\ delivered[1].id # delivered[2].id
    /\ Cardinality(LivePassed) = 1
    /\ InFlight = {[who |-> "scraper", task |-> IdleTask]}

\* scrapeHistoricalMessages is between line 240 and one of its returns
ScraperRunning ==
    scraperPc \in {"fetchChannel", "fetchPage", "iterate", "awaitPipeline",
                   "sleep", "loop"}

\* C33: historicalScrapingComplete, once true, stays true;
\* scrapingInProgress is true only while scrapeHistoricalMessages is
\* running, so it is false after each of its returns; and in every state
\* historicalScrapingComplete implies that scrapingInProgress is false.
C33_FlagsConsistent ==
    /\ [][historicalScrapingComplete => historicalScrapingComplete']_vars
    /\ [](scrapingInProgress => ScraperRunning)
    /\ [](historicalScrapingComplete => ~scrapingInProgress)

\* the scraper has returned from the end of its loop and a live message was
\* processed since: the flag is still set and nothing is in progress
C33_Witness ==
    /\ scraperPc = "returned"
    /\ historicalScrapingComplete
    /\ ~scrapingInProgress
    /\ LivePassed # {}
    /\ ScraperPassed(1) # {}

\* C34: when the historical scrape has completed, the total of links found
\* that it reports equals the number of link records that processMessage
\* handed to saveLinkToDatabase for the scraper, whatever messages were in
\* range: of a bot, of another guild or channel, or accepted.
C34_ReportedTotalIsSubmitted ==
    (scraperPc = "returned" /\ historicalScrapingComplete)
        => totalLinksFound = savedByScraper

====
